---------------------------- MODULE Spec2Model ----------------------------
(***************************************************************************)
(* Protocol engine of the WH23xx weather-station driver                    *)
(* (bin/user/wh23xx.py): the session (open, _reset, close), the retry      *)
(* wrapper WH23xxDriver._get_current, the station operations _write,       *)
(* _read_record, _read_eeprom, get_station_info, _time_sync,               *)
(* _clear_max_min and _clear_history, and the decoder decode_weather_data, *)
(* driven by a USB transport whose calls are nondeterministic (a packet, a *)
(* short write, or a raised usb.USBError).                                 *)
(***************************************************************************)
EXTENDS Integers, Sequences, FiniteSets, TLC

(***************************************************************************)
(* Bounds of the model.                                                    *)
(***************************************************************************)
\* largest configured max_tries explored
MaxTries == 2
\* longest packet an interruptRead delivers for READ_RECORD
MaxPktLen == 5
\* the per-call read counter nreads saturates here
ReadCap == 2

(***************************************************************************)
(* Program constants.                                                      *)
(***************************************************************************)
TIME_SYNC == 1
READ_EEPROM == 2
READ_RECORD == 4
CLEAR_MAX_MIN_DAY == 9
CLEAR_HISTORY == 11
\* _reset: for x in range(5)
RESET_TRIES == 5
\* the reply marker that starts every packet from the station
REPLY_MARKER == 1
\* highest index decode_station_info reads, raw[0x34], plus one
INFO_MIN_LEN == 53

\* byte values the station puts in READ_RECORD packets: the marker 0x01, the
\* READ_RECORD echo 0x04, and 0x00; as sizes they declare 0, 1 or 4 bytes
ByteValues == {0, 1, 4}

Packets == UNION {[1..n -> ByteValues] : n \in 0..MaxPktLen}

\* repr(e) of the usb.USBError the transport may raise
USBErrors == {"No data available", "No error", "Operation timed out"}

\* value of pkt1 before the first packet of an attempt has arrived
NoPacket == <<-1>>

Min(a, b) == IF a < b THEN a ELSE b

\* Python slices buf[k:] and buf[0:k]
Drop(s, k) == IF Len(s) <= k THEN <<>> ELSE SubSeq(s, k + 1, Len(s))
Take(s, k) == IF Len(s) <= k THEN s ELSE SubSeq(s, 1, k)

RECURSIVE SumSeq(_)
SumSeq(a) == IF a = <<>> THEN 0 ELSE a[1] + SumSeq(Tail(a))

\* variant of calc_checksum: the sum is not cut to a byte
calc_checksum_NoMask(a) == SumSeq(a)

\* _calc_checksum: the sum of the bytes, & 0xff
calc_checksum(a) == SumSeq(a) % 256

VARIABLES
    pc,          \* position of the single thread of control
    op,          \* the public operation in progress or last completed
    req,         \* argument of the operation: <<addr, size>> of _read_eeprom,
                 \* the local time of _time_sync, else <<0, 0>>
    max_tries,   \* WH23xxDriver.max_tries (configuration), 0 without a driver
    ntries,      \* the local ntries of _get_current
    lastErr,     \* repr(e) inside the except clause of _get_current, else ""
    tmp,         \* the local tmp of _read_record (payload collected so far);
                 \* between the attempts of one _get_current call it keeps the
                 \* value the attempt before left in it
    record_size, \* the local record_size of _read_record, kept likewise
    wbuf,        \* the frame handed to the last interruptWrite
    result,      \* how the last operation ended: [kind, val]
    \* history variables, read only by the properties
    ntries0,     \* ntries as the current attempt began
    hardErrs,    \* non-transient USBErrors caught in this _get_current call
    pkt1,        \* first packet read in this attempt, NoPacket before it
    nreads,      \* interruptReads issued since the last command was written
    rdpar,       \* parity of the interruptReads issued
    nwrites,     \* commands written in this public operation
    wcnt,        \* count the last interruptWrite reported, -1 if none
    collected,   \* payload bytes collected when the reply was cut to size
    fresh,       \* payload the packets of this attempt carry, cut to size
    rxsum,       \* the byte received right after the payload, -1 if none
    \* the session
    sess,        \* who opened the station: "driver", "scoped" (with), "none"
    devh,        \* WH23xxStation.devh: "open" or "none"
    iface,       \* the interface: "free", "claimed", or "released" once
                 \* releaseInterface has been called
    nresets,     \* devh.reset() calls of the open in progress or just failed;
                 \* afterwards those made since the interface was claimed
    rst,         \* how the last devh.reset() of _reset ended
    nsleeps,     \* time.sleep(2) calls of _reset
    \* the decoder
    raw,         \* the argument of decode_weather_data
    decoded      \* what decode_weather_data gave: [kind, val]

sessVars == <<sess, devh, iface, nresets, rst, nsleeps>>
decVars == <<raw, decoded>>

vars == <<pc, op, req, max_tries, ntries, lastErr, tmp, record_size, wbuf, result,
          ntries0, hardErrs, pkt1, nreads, rdpar, nwrites, wcnt, collected, fresh,
          rxsum, sess, devh, iface, nresets, rst, nsleeps, raw, decoded>>

NoResult == [kind |-> "none", val |-> <<>>]
Raised(k) == [kind |-> k, val |-> <<>>]

\* no station object yet: the engine is opened by OpenCall
Init ==
    /\ pc = "closed"
    /\ op = "none"
    /\ req = <<0, 0>>
    /\ max_tries = 0
    /\ ntries = 0
    /\ lastErr = ""
    /\ tmp = <<>>
    /\ record_size = 0
    /\ wbuf = <<>>
    /\ result = NoResult
    /\ ntries0 = 0
    /\ hardErrs = 0
    /\ pkt1 = NoPacket
    /\ nreads = 0
    /\ rdpar = 0
    /\ nwrites = 0
    /\ wcnt = -1
    /\ collected = 0
    /\ fresh = <<>>
    /\ rxsum = -1
    /\ sess = "none"
    /\ devh = "none"
    /\ iface = "free"
    /\ nresets = 0
    /\ rst = "none"
    /\ nsleeps = 0
    /\ raw = <<>>
    /\ decoded = NoResult


(***************************************************************************)
(* Pure pieces of the code, one operator per expression.                   *)
(***************************************************************************)
\* the frame _read_record writes
ReadRecordFrame == <<2, 2, READ_RECORD, READ_RECORD>>

\* byte counts interruptWrite may report for a frame
WriteCounts(buf) == {Len(buf) - 1, Len(buf)}

\* _write: the write is good when the reported count is the frame length
WriteOk(cnt, buf) == cnt = Len(buf)

\* _get_current: 'No data available' in errmsg or 'No error' in errmsg
Transient(errmsg) == errmsg = "No data available" \/ errmsg = "No error"

\* _get_current: the while condition
LoopContinues(n, mt) == n < mt

\* variants of AfterUSBError: every error gives the attempt back; none does
AfterUSBError_AlwaysRefund(n, errmsg) == n - 1
AfterUSBError_NeverRefund(n, errmsg) == n

\* _get_current: ntries after the except clause has handled USBError e
AfterUSBError(n, errmsg) == IF Transient(errmsg) THEN n - 1 ELSE n

\* variant of ReadRecordHeader: an empty first read is an error, as it is in
\* _read_eeprom
ReadRecordHeader_EmptyIsError(buf) ==
    IF buf = <<>> THEN "WeeWxIOError"
    ELSE IF buf[1] # REPLY_MARKER THEN "WeeWxIOError"
    ELSE IF Len(buf) < 3 THEN "IndexError"
    ELSE IF buf[3] # READ_RECORD THEN "WeeWxIOError"
    ELSE IF Len(buf) < 4 THEN "IndexError"
    ELSE "ok"

\* variant of ReadRecordHeader: the command echo is not checked
ReadRecordHeader_NoEchoCheck(buf) ==
    IF buf = <<>> THEN "None"
    ELSE IF buf[1] # REPLY_MARKER THEN "WeeWxIOError"
    ELSE IF Len(buf) < 4 THEN "IndexError"
    ELSE "ok"

\* _read_record: what the checks on the first packet decide
ReadRecordHeader(buf) ==
    IF buf = <<>> THEN "None"
    ELSE IF buf[1] # REPLY_MARKER THEN "WeeWxIOError"
    ELSE IF Len(buf) < 3 THEN "IndexError"
    ELSE IF buf[3] # READ_RECORD THEN "WeeWxIOError"
    ELSE IF Len(buf) < 4 THEN "IndexError"
    ELSE "ok"

\* _read_record: record_size = buf[3]
DeclaredSize(buf) == buf[4]

\* _read_record: tmp.extend(buf[4:]) and tmp.extend(buf[2:])
FirstPayload(buf) == Drop(buf, 4)
MorePayload(buf) == Drop(buf, 2)

\* _read_record: the while condition of the reassembly loop
NeedMore(t, size) == Len(t) < size

\* variant of Prune: the dangling bytes are kept
Prune_KeepAll(t, size) == t

\* _read_record: rbuf = tmp[0:record_size]
Prune(t, size) == Take(t, size)

(***************************************************************************)
(* How a station call ends.                                                *)
(***************************************************************************)
\* the USBErrors the history variable hardErrs does not count
NoDataErrors == {"No data available", "No error"}

\* what an operation or the decoder may raise
Exceptions ==
    {"WeeWxIOError", "IndexError", "USBError", "RetriesExceeded", "TypeError"}

\* the operation hands r (a value or a raised exception) to its caller
Finish(r, c) ==
    /\ pc' = "done"
    /\ result' = r
    /\ collected' = c
    /\ UNCHANGED <<ntries, lastErr, hardErrs>>

\* the operation returns or raises r with the locals of _read_record as
\* they are
Complete(r, c) ==
    /\ Finish(r, c)
    /\ UNCHANGED <<tmp, record_size, rxsum>>

\* the except clause of _get_current
CatchUSBError(e) ==
    /\ pc' = "gc_sleep"
    /\ ntries' = AfterUSBError(ntries, e)
    /\ lastErr' = e
    /\ hardErrs' = IF e \in NoDataErrors THEN hardErrs
                   ELSE Min(hardErrs + 1, MaxTries + 2)
    /\ UNCHANGED <<result, collected, tmp, record_size, rxsum>>

\* the transport raises usb.USBError: only _get_current catches it
RaiseUSBError(e) ==
    IF op = "get_current" THEN CatchUSBError(e)
    ELSE Complete(Raised("USBError"), 0)

\* variant of BadWrite: the count is logged and the operation goes on to
\* its read
BadWrite_ReadsOn ==
    /\ pc' = IF pc = "rr_write" THEN "rr_first" ELSE "ee_read"
    /\ UNCHANGED <<ntries, lastErr, tmp, record_size, result, hardErrs,
                   collected, rxsum>>

\* _write: cnt != len(buf) raises WeeWxIOError, which nothing on the way to
\* the caller of the operation catches
BadWrite == Complete(Raised("WeeWxIOError"), 0)

\* variant of ReturnRecord: a reply whose checksum byte is wrong is refused
ReturnRecord_Verified(t, size) ==
    /\ IF Len(t) > size
          /\ t[size + 1] # calc_checksum(<<READ_RECORD, size>> \o Prune(t, size))
       THEN Finish(Raised("WeeWxIOError"), Len(t))
       ELSE Finish([kind |-> "reply", val |-> Prune(t, size)], Len(t))
    /\ tmp' = <<READ_RECORD, size>> \o Prune(t, size)
    /\ record_size' = size
    /\ rxsum' = IF Len(t) > size THEN t[size + 1] ELSE -1

\* _read_record has collected t, at least record_size bytes: rbuf is cut
\* from it, tmp becomes the checksum input [READ_RECORD, record_size] + rbuf,
\* the checksum is computed and logged, and rbuf is returned
ReturnRecord(t, size) ==
    /\ Finish([kind |-> "reply", val |-> Prune(t, size)], Len(t))
    /\ tmp' = <<READ_RECORD, size>> \o Prune(t, size)
    /\ record_size' = size
    /\ rxsum' = IF Len(t) > size THEN t[size + 1] ELSE -1

(***************************************************************************)
(* The callers: WH23xxDriver (genLoopPackets) and a scoped session         *)
(* (with WH23xxStation() as s).                                            *)
(***************************************************************************)
\* a reply of read-current that its caller has still to decode:
\* genLoopPackets decodes "if raw", the scoped loop decodes whatever came
DecodePending ==
    /\ pc = "done"
    /\ op \in {"get_current", "station_get_current"}
    /\ IF sess = "driver"
       THEN result.kind = "reply" /\ result.val # <<>>
       ELSE result.kind \in {"reply", "None"}

\* an exception is on its way out of the caller's code
Propagating ==
    \/ pc = "done" /\ result.kind \in Exceptions
    \/ pc = "decoded" /\ decoded.kind \in Exceptions

\* operation o can be started: the station is open, no call is in progress,
\* the driver only polls, and in a scoped session an exception leaves the
\* with block unless it is the one the dump loop catches around _read_eeprom
CanCall(o) ==
    /\ pc \in {"idle", "done", "decoded"}
    /\ ~DecodePending
    /\ (o = "get_current") <=> (sess = "driver")
    /\ (sess = "scoped" /\ Propagating) =>
           (op = "read_eeprom" /\ o = "read_eeprom")

\* the per-call variables as operation o with argument r begins
BeginOp(o, r) ==
    /\ op' = o
    /\ req' = r
    /\ ntries' = 0
    /\ lastErr' = ""
    /\ wbuf' = <<>>
    /\ ntries0' = 0
    /\ hardErrs' = 0
    /\ pkt1' = NoPacket
    /\ nreads' = 0
    /\ nwrites' = 0
    /\ wcnt' = -1
    /\ collected' = 0
    /\ fresh' = <<>>
    /\ rxsum' = -1
    /\ raw' = <<>>
    /\ decoded' = NoResult
    /\ tmp' = <<>>
    /\ record_size' = 0
    /\ UNCHANGED rdpar

(***************************************************************************)
(* WH23xxDriver._get_current and WH23xxStation._read_record.               *)
(***************************************************************************)
\* a caller starts public operation o with argument r at position p
StartCall(o, r, p) ==
    /\ CanCall(o)
    /\ pc' = p
    /\ result' = NoResult
    /\ BeginOp(o, r)
    /\ UNCHANGED <<max_tries, sessVars>>

\* genLoopPackets: raw = self._get_current(), ntries = 0
GetCurrentCall == StartCall("get_current", <<0, 0>>, "gc_loop")

\* the scoped loop: raw = s.get_current(), no retry wrapper
StationGetCurrentCall == StartCall("station_get_current", <<0, 0>>, "rr_write")

GetCurrentLoop ==
    /\ pc = "gc_loop"
    /\ IF LoopContinues(ntries, max_tries)
       THEN /\ ntries' = ntries + 1
            /\ ntries0' = ntries
            /\ pc' = "rr_write"
            /\ UNCHANGED result
       ELSE /\ pc' = "done"
            /\ result' = Raised("RetriesExceeded")
            /\ UNCHANGED <<ntries, ntries0>>
    /\ UNCHANGED <<op, req, max_tries, lastErr, tmp, record_size, wbuf, hardErrs,
                   pkt1, nreads, rdpar, nwrites, wcnt, collected, fresh, rxsum,
                   sessVars, decVars>>

\* variant of NewTmp: the list of the call before is kept
NewTmp_Stale(old) == old

\* _read_record: tmp = [], whatever an earlier call left in it
NewTmp(old) == <<>>

ReadRecordWrite ==
    /\ pc = "rr_write"
    /\ wbuf' = ReadRecordFrame
    /\ nwrites' = Min(nwrites + 1, MaxTries + 1)
    /\ pkt1' = NoPacket
    /\ nreads' = 0
    /\ fresh' = <<>>
    /\ \/ \E cnt \in WriteCounts(ReadRecordFrame) :
             /\ wcnt' = cnt
             /\ IF WriteOk(cnt, ReadRecordFrame)
                THEN /\ pc' = "rr_first"
                     /\ tmp' = NewTmp(tmp)
                     /\ record_size' = 0
                     /\ UNCHANGED <<ntries, lastErr, result, hardErrs,
                                    collected, rxsum>>
                ELSE BadWrite
       \/ /\ wcnt' = -1
          /\ \E e \in USBErrors : RaiseUSBError(e)
    /\ UNCHANGED <<op, req, max_tries, ntries0, rdpar, sessVars, decVars>>

ReadRecordFirst ==
    /\ pc = "rr_first"
    /\ nreads' = Min(nreads + 1, ReadCap)
    /\ rdpar' = 1 - rdpar
    /\ \/ \E e \in USBErrors : RaiseUSBError(e) /\ UNCHANGED <<pkt1, fresh>>
       \/ \E buf \in Packets :
             /\ pkt1' = buf
             /\ LET hdr == ReadRecordHeader(buf) IN
                IF hdr = "None"
                THEN /\ Complete([kind |-> "None", val |-> <<>>], 0)
                     /\ UNCHANGED fresh
                ELSE IF hdr # "ok"
                THEN Complete(Raised(hdr), 0) /\ UNCHANGED fresh
                ELSE /\ fresh' = Take(Drop(buf, 4), buf[4])
                     /\ IF NeedMore(tmp \o FirstPayload(buf), DeclaredSize(buf))
                        THEN /\ pc' = "rr_more"
                             /\ record_size' = DeclaredSize(buf)
                             /\ tmp' = tmp \o FirstPayload(buf)
                             /\ UNCHANGED <<ntries, lastErr, result, hardErrs,
                                            collected, rxsum>>
                        ELSE ReturnRecord(tmp \o FirstPayload(buf),
                                          DeclaredSize(buf))
    /\ UNCHANGED <<op, req, max_tries, wbuf, ntries0, nwrites, wcnt, sessVars, decVars>>

ReadRecordMore ==
    /\ pc = "rr_more"
    /\ nreads' = Min(nreads + 1, ReadCap)
    /\ rdpar' = 1 - rdpar
    /\ \/ \E e \in USBErrors : RaiseUSBError(e) /\ UNCHANGED fresh
       \/ \E buf \in Packets :
             LET t == tmp \o MorePayload(buf) IN
             /\ fresh' = Take(fresh \o Drop(buf, 2), pkt1[4])
             /\ IF NeedMore(t, record_size)
                THEN /\ tmp' = t
                     /\ UNCHANGED <<pc, ntries, lastErr, record_size, result,
                                    hardErrs, collected, rxsum>>
                ELSE ReturnRecord(t, record_size)
    /\ UNCHANGED <<op, req, max_tries, wbuf, ntries0, pkt1, nwrites, wcnt, sessVars,
                   decVars>>

\* time.sleep(self.retry_wait), then back to the while condition
RetryWait ==
    /\ pc = "gc_sleep"
    /\ pc' = "gc_loop"
    /\ lastErr' = ""
    /\ UNCHANGED <<op, req, max_tries, ntries, tmp, record_size, wbuf, result,
                   ntries0, hardErrs, pkt1, nreads, rdpar, nwrites, wcnt, collected,
                   fresh, rxsum, sessVars, decVars>>

(***************************************************************************)
(* WH23xxStation._read_eeprom and get_station_info.                        *)
(***************************************************************************)
\* the captured station-info block of the driver's self test: 56 EEPROM
\* bytes and the checksum byte of the reply
INFO_DATA ==
    <<85, 170, 0, 35, 16, 188, 122, 40, 40, 82, 162, 1, 2, 243, 4, 255, 83,
      162, 1, 74, 178, 0, 0, 0, 1, 44, 1, 27, 251, 0, 0, 0, 0, 3, 4, 0, 0, 0,
      0, 0, 0, 0, 0, 195, 255, 0, 0, 100, 100, 100, 0, 100, 0, 255, 255, 255,
      107>>

\* <<addr, size>> of the _read_eeprom calls the program makes: the station
\* info block, the first timestamp, one page of a dump
EepromRequests == {<<0, 56>>, <<712, 8>>, <<1600, 32>>}

\* packets an interruptRead may deliver after READ_EEPROM: empty and cut
\* off ones, and <<marker, length, echo, declared size>> followed by n
\* bytes of data, checksum and padding
EepromPackets ==
    {<<>>, <<0>>, <<REPLY_MARKER>>, <<REPLY_MARKER, 3, READ_EEPROM>>,
     <<REPLY_MARKER, 3, READ_RECORD>>}
    \cup {<<m, n + 3, e, d>> \o Take(INFO_DATA \o <<0, 0, 0>>, n) :
             m \in {0, REPLY_MARKER}, e \in {READ_EEPROM, READ_RECORD},
             d \in {8, 32, 56}, n \in {0, 9, 33, 57, 60}}

\* variant of ReadEepromFrame: the high byte of the address goes first
ReadEepromFrame_HiLo(addr, size) ==
    LET addr_lo == addr % 256
        addr_hi == (addr \div 256) % 256
        cmd == <<READ_EEPROM, addr_hi, addr_lo, size>>
    IN <<2, 5>> \o cmd \o <<calc_checksum(cmd)>>

\* the frame _read_eeprom writes
ReadEepromFrame(addr, size) ==
    LET addr_lo == addr % 256
        addr_hi == (addr \div 256) % 256
        cmd == <<READ_EEPROM, addr_lo, addr_hi, size>>
    IN <<2, 5>> \o cmd \o <<calc_checksum(cmd)>>

\* _read_eeprom: what the checks on the reply decide; the text of the
\* bad-reply error formats buf[0] to buf[3]
ReadEepromHeader(buf) ==
    IF buf = <<>> THEN "WeeWxIOError"
    ELSE IF buf[1] # REPLY_MARKER
    THEN IF Len(buf) < 4 THEN "IndexError" ELSE "WeeWxIOError"
    ELSE IF Len(buf) < 3 THEN "IndexError"
    ELSE IF buf[3] # READ_EEPROM
    THEN IF Len(buf) < 4 THEN "IndexError" ELSE "WeeWxIOError"
    ELSE IF Len(buf) < 4 THEN "IndexError"
    ELSE "ok"

\* variant of ReadEepromPayload: only the declared number of bytes
ReadEepromPayload_DeclaredOnly(buf) == Take(Drop(buf, 4), buf[4])

\* _read_eeprom: return buf[4:]
ReadEepromPayload(buf) == Drop(buf, 4)

\* decode_station_info reads raw[0] to raw[0x34]: a shorter raw raises
\* IndexError
StationInfoResult(buf) ==
    IF Len(buf) < INFO_MIN_LEN THEN Raised("IndexError")
    ELSE [kind |-> "info", val |-> buf]

\* a caller reads EEPROM directly: s._read_eeprom(addr, size)
ReadEepromCall ==
    \E r \in EepromRequests : StartCall("read_eeprom", r, "ee_write")

\* get_station_info: buf = self._read_eeprom(0x0000, 56)
GetStationInfoCall == StartCall("get_station_info", <<0, 56>>, "ee_write")

ReadEepromWrite ==
    /\ pc = "ee_write"
    /\ wbuf' = ReadEepromFrame(req[1], req[2])
    /\ nwrites' = Min(nwrites + 1, MaxTries + 1)
    /\ \/ \E cnt \in WriteCounts(ReadEepromFrame(req[1], req[2])) :
             /\ wcnt' = cnt
             /\ IF WriteOk(cnt, ReadEepromFrame(req[1], req[2]))
                THEN /\ pc' = "ee_read"
                     /\ UNCHANGED <<ntries, lastErr, tmp, record_size, result,
                                    hardErrs, collected, rxsum>>
                ELSE BadWrite
       \/ /\ wcnt' = -1
          /\ \E e \in USBErrors : RaiseUSBError(e)
    /\ UNCHANGED <<op, req, max_tries, ntries0, pkt1, nreads, rdpar, fresh,
                   sessVars, decVars>>

ReadEepromRead ==
    /\ pc = "ee_read"
    /\ nreads' = Min(nreads + 1, ReadCap)
    /\ rdpar' = 1 - rdpar
    /\ \/ \E e \in USBErrors : RaiseUSBError(e) /\ UNCHANGED pkt1
       \/ \E buf \in EepromPackets :
             /\ pkt1' = buf
             /\ LET hdr == ReadEepromHeader(buf) IN
                IF hdr # "ok" THEN Complete(Raised(hdr), 0)
                ELSE IF op = "get_station_info"
                THEN Complete(StationInfoResult(ReadEepromPayload(buf)), 0)
                ELSE Complete([kind |-> "reply",
                               val |-> ReadEepromPayload(buf)], 0)
    /\ UNCHANGED <<op, req, max_tries, wbuf, ntries0, nwrites, wcnt, fresh, sessVars,
                   decVars>>

(***************************************************************************)
(* The decoder: _decode_bytes, ITEM_MAPPING and decode_weather_data.       *)
(* A number is kept as <<hi, lo, den>> and stands for                      *)
(* (hi * 65536 + lo) / den, so that four-byte fields stay exact.           *)
(***************************************************************************)
ITEM_TIME == 64
ITEM_DATE == 128
ITEM_LIGHT == 21

\* item identifier |-> <<label, num_bytes, function>>
ITEM_MAPPING ==
    << <<"in_temp", 2, "temp">>, <<"out_temp", 2, "temp">>,
       <<"dewpoint", 2, "temp">>, <<"windchill", 2, "temp">>,
       <<"heatindex", 2, "temp">>, <<"in_humidity", 1, "same">>,
       <<"out_humidity", 1, "same">>, <<"abs_baro", 2, "tenth">>,
       <<"rel_baro", 2, "tenth">>, <<"wind_dir", 2, "same">>,
       <<"wind_speed", 2, "tenth">>, <<"gust_speed", 2, "tenth">>,
       <<"rain_event", 4, "tenth">>, <<"rain_rate", 4, "tenth">>,
       <<"rain_hour", 4, "tenth">>, <<"rain_day", 4, "tenth">>,
       <<"rain_week", 4, "tenth">>, <<"rain_month", 4, "tenth">>,
       <<"rain_year", 4, "tenth">>, <<"rain_totals", 4, "tenth">>,
       <<"light", 4, "tenth">>, <<"uv", 2, "milli">>, <<"uvi", 1, "same">> >>

\* the lambdas of ITEM_MAPPING: x / 10.0 - 40.0, x, x / 10.0, x / 1000.0
ApplyFunc(func, hi, lo) ==
    CASE func = "temp" -> <<hi, lo - 400, 10>>
      [] func = "same" -> <<hi, lo, 1>>
      [] func = "tenth" -> <<hi, lo, 10>>
      [] func = "milli" -> <<hi, lo, 1000>>

\* the value None
NoValue == <<>>

\* variant of decode_bytes: only the first byte is looked at
decode_bytes_FirstByteOnly(buf, idx, nbytes, func) ==
    IF buf[idx] = 255 THEN NoValue
    ELSE LET hi == IF nbytes = 4 THEN buf[idx] * 256 + buf[idx + 1] ELSE 0
             lo == IF nbytes = 1 THEN buf[idx]
                   ELSE buf[idx + nbytes - 2] * 256 + buf[idx + nbytes - 1]
         IN  ApplyFunc(func, hi, lo)

\* variant of decode_bytes: the bytes are combined least significant first
decode_bytes_LSBFirst(buf, idx, nbytes, func) ==
    IF \A j \in 0..(nbytes - 1) : buf[idx + j] = 255 THEN NoValue
    ELSE LET hi == IF nbytes = 4
                   THEN buf[idx + 3] * 256 + buf[idx + 2] ELSE 0
             lo == IF nbytes = 1 THEN buf[idx]
                   ELSE buf[idx + 1] * 256 + buf[idx]
         IN  ApplyFunc(func, hi, lo)

\* _decode_bytes: None when all nbytes bytes from idx on are 0xff, else func
\* of the bytes read MSB first (nbytes is 1, 2 or 4)
decode_bytes(buf, idx, nbytes, func) ==
    IF \A j \in 0..(nbytes - 1) : buf[idx + j] = 255 THEN NoValue
    ELSE LET hi == IF nbytes = 4 THEN buf[idx] * 256 + buf[idx + 1] ELSE 0
             lo == IF nbytes = 1 THEN buf[idx]
                   ELSE buf[idx + nbytes - 2] * 256 + buf[idx + nbytes - 1]
         IN  ApplyFunc(func, hi, lo)

\* 0xffffff / 10.0, the value the light workaround turns into None
LightInvalid == <<255, 65535, 10>>

\* data = dict()
EmptyMap == [l \in {} |-> <<>>]

\* data[label] = obs
Put(data, label, obs) ==
    [l \in (DOMAIN data) \cup {label} |-> IF l = label THEN obs ELSE data[l]]

\* the decoder raises k: its caller gets no mapping
DecRaised(k) == [kind |-> k, val |-> EmptyMap]

\* variant of ItemId: only the date bit is cleared
ItemId_KeepsTimeBit(tag) == tag % ITEM_DATE

\* item = item & ~ITEM_DATE, item = item & ~ITEM_TIME: the identifier of a
\* tag byte without its two flag bits
ItemId(tag) == tag % ITEM_TIME

\* has_date = (item & ITEM_DATE) != 0
HasDate(tag) == (tag \div ITEM_DATE) % 2 = 1

\* has_time = (item & ITEM_TIME) != 0
HasTime(tag) == (tag \div ITEM_TIME) % 2 = 1

\* variant of NotEnoughBytes: a field that ends the buffer is refused too
NotEnoughBytes_OffByOne(rw, p, nbytes) == p + nbytes >= Len(rw)

\* if i + mapping[1] - 1 >= len(raw), with the tag at position p of rw (the
\* code's i is one past the tag and counts from 0, so i = p)
NotEnoughBytes(rw, p, nbytes) == p + nbytes - 1 >= Len(rw)

\* variant of AfterTime: the two time bytes are read but not passed
AfterTime_NoAdvance(pt, has_time) == pt

\* if has_time: ... i += 2
AfterTime(pt, has_time) == IF has_time THEN pt + 2 ELSE pt

\* if has_date: ... i += 3
AfterDate(pd, has_date) == IF has_date THEN pd + 3 ELSE pd

\* variant of LightWorkaround: the invalid value of any item becomes None
LightWorkaround_AnyItem(item, v) == IF v = LightInvalid THEN NoValue ELSE v

\* workaround firmware bug for invalid light value
LightWorkaround(item, v) ==
    IF item = ITEM_LIGHT /\ v = LightInvalid THEN NoValue ELSE v

\* variant of ShortSuffix: the observations decoded so far are returned
ShortSuffix_ReturnsData(data) == [kind |-> "ok", val |-> data]

\* raw[i], raw[i+1], raw[i+2] of the date or raw[i], raw[i+1] of the time
\* lie past the end of raw: the subscript raises IndexError
ShortSuffix(data) == DecRaised("IndexError")

RECURSIVE DecodeLoop(_, _, _)

\* variant of NoMapping: the tag is logged and skipped
NoMapping_Skip(rw, p, data) == DecodeLoop(rw, p + 1, data)

\* decode_weather_data: the else branch of "if mapping"
NoMapping(rw, p, data) == DecRaised("WeeWxIOError")

\* decode_weather_data: the while loop with the cursor at position p of rw
\* (first position 1) and the observations decoded so far in data
DecodeLoop(rw, p, data) ==
    IF p > Len(rw) THEN [kind |-> "ok", val |-> data]
    ELSE
    LET has_date == HasDate(rw[p])
        has_time == HasTime(rw[p])
        item == ItemId(rw[p])
    IN  IF item \notin DOMAIN ITEM_MAPPING THEN NoMapping(rw, p, data)
        ELSE
        LET mapping == ITEM_MAPPING[item]
            pd == p + 1 + mapping[2]
            pt == AfterDate(pd, has_date)
            pn == AfterTime(pt, has_time)
        IN  IF NotEnoughBytes(rw, p, mapping[2]) THEN DecRaised("WeeWxIOError")
            ELSE IF has_date /\ pd + 2 > Len(rw) THEN ShortSuffix(data)
            ELSE IF has_time /\ pt + 1 > Len(rw) THEN ShortSuffix(data)
            ELSE
            LET v == decode_bytes(rw, p + 1, mapping[2], mapping[3])
                obs == [value |-> LightWorkaround(item, v),
                        date |-> IF has_date
                                 THEN <<2000 + rw[pd], rw[pd + 1], rw[pd + 2]>>
                                 ELSE <<>>,
                        time |-> IF has_time THEN <<rw[pt], rw[pt + 1]>>
                                 ELSE <<>>]
            IN  DecodeLoop(rw, pn, Put(data, mapping[1], obs))

decode_weather_data(rw) == DecodeLoop(rw, 1, EmptyMap)

\* variant of DecodeCurrent: a decode failure drops the handle
DecodeCurrent_DropsHandle ==
    /\ DecodePending
    /\ pc' = "decoded"
    /\ raw' = result.val
    /\ decoded' = IF result.kind = "None" THEN DecRaised("TypeError")
                  ELSE decode_weather_data(result.val)
    /\ devh' = IF decoded'.kind \in Exceptions THEN "none" ELSE devh
    /\ UNCHANGED <<op, req, max_tries, ntries, lastErr, tmp, record_size, wbuf,
                   result, ntries0, hardErrs, pkt1, nreads, rdpar, nwrites, wcnt,
                   collected, fresh, rxsum, sess, iface, nresets, rst, nsleeps>>

\* the caller of read-current decodes what it got: genLoopPackets when raw
\* is not empty, the scoped loop always (len(None) raises TypeError)
DecodeCurrent ==
    /\ DecodePending
    /\ pc' = "decoded"
    /\ raw' = result.val
    /\ decoded' = IF result.kind = "None" THEN DecRaised("TypeError")
                  ELSE decode_weather_data(result.val)
    /\ UNCHANGED <<op, req, max_tries, ntries, lastErr, tmp, record_size, wbuf,
                   result, ntries0, hardErrs, pkt1, nreads, rdpar, nwrites, wcnt,
                   collected, fresh, rxsum, sessVars>>

(***************************************************************************)
(* The decoder on its own: the self test of __main__ hands byte strings to *)
(* decode_weather_data.                                                    *)
(***************************************************************************)
\* the two captured records of the self test
CURRENT_DATA ==
    {
    <<1, 2, 143, 2, 2, 19, 3, 2, 17, 4, 2, 19, 5, 2, 19, 6, 50, 7, 99, 8,
      39, 240, 9, 39, 178, 10, 0, 90, 11, 0, 43, 12, 0, 59, 14, 0, 0, 0, 0,
      16, 0, 0, 0, 117, 17, 0, 0, 0, 162, 18, 0, 0, 0, 117, 19, 0, 0, 4,
      197, 20, 0, 0, 4, 197, 21, 0, 255, 255, 255, 22, 255, 255, 23, 255>>,
    <<1, 2, 144, 2, 2, 19, 3, 2, 17, 4, 2, 19, 5, 2, 19, 6, 50, 7, 99, 8,
      39, 240, 9, 39, 178, 10, 0, 90, 11, 0, 23, 12, 0, 33, 14, 0, 0, 0, 0,
      16, 0, 0, 0, 117, 17, 0, 0, 0, 162, 18, 0, 0, 0, 117, 19, 0, 0, 4,
      197, 20, 0, 0, 4, 197, 21, 0, 255, 255, 255, 22, 255, 255, 23, 255>>
    }

\* values of the bytes of a field
FieldBytes == {0, 1, 255}

\* one item: a tag of the table followed by its field
SingleItems ==
    UNION {{<<item>> \o b : b \in [1..ITEM_MAPPING[item][2] -> FieldBytes]} :
              item \in DOMAIN ITEM_MAPPING}

\* tags with no entry in the table: 0x00, 0x18, 0x20, 0x3f, and 0x18 with
\* the time and the date bit
UnknownTags == {0, 24, 32, 63, 88, 152}

\* whole items before an unknown tag, and bytes after it
ItemsBefore == {<<>>, <<6, 50>>, <<1, 2, 143, 7, 99>>}
BytesAfter == {<<>>, <<7, 99>>, <<255>>}

UnknownStreams ==
    {pre \o <<u>> \o suf :
        pre \in ItemsBefore, u \in UnknownTags, suf \in BytesAfter}

\* the bytes after a value: a date (year - 2000, month, day), a time
\* (hour, minute)
DateBytes == <<24, 11, 3>>
TimeBytes == <<23, 59>>

Suffix(tag) ==
    (IF HasDate(tag) THEN DateBytes ELSE <<>>) \o
    (IF HasTime(tag) THEN TimeBytes ELSE <<>>)

\* the flag bits a tag may carry
FlagBits == {0, ITEM_TIME, ITEM_DATE, ITEM_DATE + ITEM_TIME}

\* fields of nbytes bytes: all bytes alike, 0x0213, 0x00ffffff
FieldPatterns(nbytes) ==
    {[j \in 1..nbytes |-> c] : c \in {1, 255}} \cup
    (IF nbytes = 2 THEN {<<2, 19>>} ELSE {}) \cup
    (IF nbytes = 4 THEN {<<0, 255, 255, 255>>} ELSE {})

\* one whole item: tag, field, and the suffix its flag bits call for
FlaggedItems ==
    UNION {{<<item + f>> \o b \o Suffix(item + f) :
               b \in FieldPatterns(ITEM_MAPPING[item][2])} :
              item \in DOMAIN ITEM_MAPPING, f \in FlagBits}

\* one whole item
WholeItems == SingleItems \cup FlaggedItems

\* whole items after an item
ItemsAfter == {<<6, 50>>, <<214, 255, 255, 25, 1, 2, 3, 4>>}

\* an item and one more item after it
ItemStreams == {it \o nxt : it \in FlaggedItems, nxt \in ItemsAfter}

\* an item cut short: every proper prefix of a whole item
CutItems == UNION {{Take(it, n) : n \in 1..(Len(it) - 1)} : it \in WholeItems}

OneItemInputs == WholeItems \cup CutItems

DecInputs ==
    OneItemInputs \cup ItemStreams \cup UnknownStreams \cup CURRENT_DATA
    \cup {<<>>}

(***************************************************************************)
(* decode_history_record. A value is <<x, den>> and stands for x / den;     *)
(* byte k of the code's raw is rw[k + 1]. The divisions of the code are     *)
(* divisions of integers.                                                  *)
(***************************************************************************)
\* raw[k]
Byte(rw, k) == rw[k + 1]

\* (raw[0] & mask) / mask for a mask of one bit
Bit(x, mask) == (x \div mask) % 2

\* variant of WrongLength: only a short record is refused
WrongLength_ShortOnly(rw) == Len(rw) < 18

\* if not raw ... if len(raw) != 18
WrongLength(rw) == rw = <<>> \/ Len(rw) # 18

\* None if x == invalid else x / den
Valid(x, invalid, den) == IF x = invalid THEN NoValue ELSE <<x, den>>

\* None if x == 0xfff else x / 10.0 - 40.0
ValidTemp(x) == IF x = 4095 THEN NoValue ELSE <<x - 400, 10>>

\* variant of WindDir: the low byte alone decides whether it is valid
WindDir_LowByteOnly(rw) ==
    IF Byte(rw, 1) = 255 THEN NoValue
    ELSE <<(Byte(rw, 0) % 2) * 256 + Byte(rw, 1), 1>>

\* x = ((raw[0] & 0x01) << 8) + raw[1]; None if x == 0x1ff else x
WindDir(rw) == Valid((Byte(rw, 0) % 2) * 256 + Byte(rw, 1), 511, 1)

\* x = ((raw[9] & 0x0f) << 8) + raw[8]
TempInRaw(rw) == (Byte(rw, 9) % 16) * 256 + Byte(rw, 8)

\* x = ((raw[9] & 0xf0) << 8) + raw[10]: the masked byte, not the nibble,
\* is shifted by eight bits
TempOutRaw(rw) == (Byte(rw, 9) \div 16) * 16 * 256 + Byte(rw, 10)

\* x = (raw[11] << 8) + raw[12]
PressureRaw(rw) == Byte(rw, 11) * 256 + Byte(rw, 12)

\* x = (raw[15] << 16) + (raw[14] << 8) + raw[13]
LightRaw(rw) == Byte(rw, 15) * 65536 + Byte(rw, 14) * 256 + Byte(rw, 13)

\* x = (raw[17] << 8) + raw[16]
UVRaw(rw) == Byte(rw, 17) * 256 + Byte(rw, 16)

decode_history_record(rw) ==
    IF WrongLength(rw) THEN EmptyMap
    ELSE [wind_dir |-> WindDir(rw),
          wind_speed |->
              Valid(Bit(Byte(rw, 0), 2) * 256 + Byte(rw, 2), 511, 10),
          gust_speed |->
              Valid(Bit(Byte(rw, 0), 4) * 256 + Byte(rw, 3), 511, 10),
          rain_total |->
              <<Bit(Byte(rw, 0), 8) * 65536 + Byte(rw, 5) * 256 + Byte(rw, 4),
                10>>,
          rain_overflow |-> <<Bit(Byte(rw, 0), 16), 1>>,
          no_sensors |-> <<Bit(Byte(rw, 0), 128), 1>>,
          humidity_in |-> Valid(Byte(rw, 6), 255, 1),
          humidity_out |-> Valid(Byte(rw, 7), 255, 1),
          temperature_in |-> ValidTemp(TempInRaw(rw)),
          temperature_out |-> ValidTemp(TempOutRaw(rw)),
          pressure |-> Valid(PressureRaw(rw), 65535, 10),
          light |-> Valid(LightRaw(rw), 16777215, 10),
          uv |-> Valid(UVRaw(rw), 65535, 1000)]

\* a record of 18 bytes with the bytes of a from byte k on, 0x11 elsewhere
Record(k, a) ==
    [j \in 1..18 |-> IF j - 1 >= k /\ j - 1 < k + Len(a)
                     THEN a[j - k] ELSE 17]

\* records that differ in bytes 0 to 2 (flag bits, wind direction and speed)
WindRecords ==
    {Record(0, <<b0, b1, b2>>) :
        b0 \in {0, 1, 2, 254, 255}, b1 \in {0, 100, 255}, b2 \in {0, 255}}

\* records that differ in bytes 8 to 10 (the two temperatures)
TempRecords ==
    {Record(8, <<b8, b9, b10>>) :
        b8 \in {0, 1, 255}, b9 \in {0, 1, 15, 16, 240, 255},
        b10 \in {0, 1, 255}}

\* records that differ in bytes 11 to 17 (pressure, light, uv)
TailRecords ==
    {Record(11, p \o l \o u) :
        p \in {<<0, 1>>, <<1, 0>>, <<255, 255>>},
        l \in {<<0, 0, 1>>, <<1, 0, 0>>, <<1, 2, 3>>, <<255, 255, 255>>},
        u \in {<<0, 1>>, <<1, 0>>, <<255, 255>>}}

\* byte strings of another length: none to 17 bytes, 19 and 20 bytes
OtherLengths ==
    {[j \in 1..n |-> b] : n \in (0..17) \cup {19, 20}, b \in {0, 255}}

HistInputs == WindRecords \cup TempRecords \cup TailRecords \cup OtherLengths

(***************************************************************************)
(* The legacy driver's decoder of the same record, WH2300Station.parse_raw.*)
(***************************************************************************)
\* variant of LegacyUV: the value is scaled as in the revised decoder
LegacyUV_Scaled(x) == IF x = 65535 THEN NoValue ELSE <<x, 1000>>

\* data['uv'] = None if x == 0xffff else x
LegacyUV(x) == IF x = 65535 THEN NoValue ELSE <<x, 1>>

parse_raw(rw) ==
    IF rw = <<>> \/ Len(rw) # 18 THEN EmptyMap
    ELSE
    LET b0 == Byte(rw, 0)
        wd == (b0 % 2) * 256 + Byte(rw, 1)
        ws == ((b0 \div 2) % 2) * 256 + Byte(rw, 2)
        gs == ((b0 \div 4) % 2) * 256 + Byte(rw, 3)
        rt == ((b0 \div 8) % 2) * 65536 + Byte(rw, 5) * 256 + Byte(rw, 4)
        ti == (Byte(rw, 9) % 16) * 256 + Byte(rw, 8)
        to == (Byte(rw, 9) \div 16) * 16 * 256 + Byte(rw, 10)
        pr == Byte(rw, 11) * 256 + Byte(rw, 12)
        li == Byte(rw, 15) * 65536 + Byte(rw, 14) * 256 + Byte(rw, 13)
    IN  [wind_dir |-> IF wd = 511 THEN NoValue ELSE <<wd, 1>>,
         wind_speed |-> IF ws = 511 THEN NoValue ELSE <<ws, 10>>,
         gust_speed |-> IF gs = 511 THEN NoValue ELSE <<gs, 10>>,
         rain_total |-> <<rt, 10>>,
         rain_overflow |-> <<(b0 \div 16) % 2, 1>>,
         no_sensors |-> <<(b0 \div 128) % 2, 1>>,
         humidity_in |->
             IF Byte(rw, 6) = 255 THEN NoValue ELSE <<Byte(rw, 6), 1>>,
         humidity_out |->
             IF Byte(rw, 7) = 255 THEN NoValue ELSE <<Byte(rw, 7), 1>>,
         temperature_in |-> IF ti = 4095 THEN NoValue ELSE <<ti - 400, 10>>,
         temperature_out |-> IF to = 4095 THEN NoValue ELSE <<to - 400, 10>>,
         pressure |-> IF pr = 65535 THEN NoValue ELSE <<pr, 10>>,
         light |-> IF li = 16777215 THEN NoValue ELSE <<li, 10>>,
         uv |-> LegacyUV(Byte(rw, 17) * 256 + Byte(rw, 16))]

(***************************************************************************)
(* decode_station_info: of its keys the model keeps the timezone.          *)
(***************************************************************************)
\* _signed: v = x & 0xf; if x & 0xf0 == 0xf0: v *= -1
signed(x) == IF x \div 16 = 15 THEN -(x % 16) ELSE x % 16

\* data['timezone'] = _signed(raw[0x1c]); a raw too short for the last key
\* read, raw[0x34], raises IndexError
decode_station_info(rw) ==
    IF Len(rw) < INFO_MIN_LEN THEN DecRaised("IndexError")
    ELSE [kind |-> "ok", val |-> [timezone |-> signed(Byte(rw, 28))]]

\* the captured block with every value of the timezone byte
InfoInputs == {[INFO_DATA EXCEPT ![29] = tz] : tz \in 0..255}

\* the self test is started with one of its three decoding actions
DecInit ==
    /\ \/ pc = "dec_call" /\ op = "decode" /\ raw \in DecInputs
       \/ pc = "hist_call" /\ op = "history" /\ raw \in HistInputs
       \/ pc = "info_call" /\ op = "info" /\ raw \in InfoInputs
       \/ pc = "legacy_call" /\ op = "legacy_history" /\ raw \in HistInputs
    /\ decoded = NoResult
    /\ req = <<0, 0>>
    /\ max_tries = 0
    /\ ntries = 0
    /\ lastErr = ""
    /\ tmp = <<>>
    /\ record_size = 0
    /\ wbuf = <<>>
    /\ result = NoResult
    /\ ntries0 = 0
    /\ hardErrs = 0
    /\ pkt1 = NoPacket
    /\ nreads = 0
    /\ rdpar = 0
    /\ nwrites = 0
    /\ wcnt = -1
    /\ collected = 0
    /\ fresh = <<>>
    /\ rxsum = -1
    /\ sess = "none"
    /\ devh = "none"
    /\ iface = "free"
    /\ nresets = 0
    /\ rst = "none"
    /\ nsleeps = 0

\* print WH23xxStation.decode_weather_data(raw)
DecodeCall ==
    /\ pc = "dec_call"
    /\ pc' = "dec_done"
    /\ decoded' = decode_weather_data(raw)
    /\ UNCHANGED <<op, req, max_tries, ntries, lastErr, tmp, record_size, wbuf,
                   result, ntries0, hardErrs, pkt1, nreads, rdpar, nwrites, wcnt,
                   collected, fresh, rxsum, sessVars, raw>>

\* print WH23xxStation.decode_history_record(raw)
HistoryCall ==
    /\ pc = "hist_call"
    /\ pc' = "hist_done"
    /\ decoded' = [kind |-> "ok", val |-> decode_history_record(raw)]
    /\ UNCHANGED <<op, req, max_tries, ntries, lastErr, tmp, record_size, wbuf,
                   result, ntries0, hardErrs, pkt1, nreads, rdpar, nwrites, wcnt,
                   collected, fresh, rxsum, sessVars, raw>>

\* print WH23xxStation.decode_station_info(raw)
InfoCall ==
    /\ pc = "info_call"
    /\ pc' = "info_done"
    /\ decoded' = decode_station_info(raw)
    /\ UNCHANGED <<op, req, max_tries, ntries, lastErr, tmp, record_size, wbuf,
                   result, ntries0, hardErrs, pkt1, nreads, rdpar, nwrites, wcnt,
                   collected, fresh, rxsum, sessVars, raw>>

\* the legacy self test: print "parsed:", WH2300Station.parse_raw(raw)
LegacyParseCall ==
    /\ pc = "legacy_call"
    /\ pc' = "legacy_done"
    /\ decoded' = [kind |-> "ok", val |-> parse_raw(raw)]
    /\ UNCHANGED <<op, req, max_tries, ntries, lastErr, tmp, record_size, wbuf,
                   result, ntries0, hardErrs, pkt1, nreads, rdpar, nwrites, wcnt,
                   collected, fresh, rxsum, sessVars, raw>>

DecNext == DecodeCall \/ HistoryCall \/ InfoCall \/ LegacyParseCall

DecSpec == DecInit /\ [][DecNext]_vars

(***************************************************************************)
(* The session: WH23xxStation.open, _reset, close, __enter__ and __exit__, *)
(* WH23xxDriver.__init__ and closePort.                                    *)
(***************************************************************************)
\* _reset: the for loop goes on after x calls of devh.reset() have failed
ResetLoopContinues_OneMore(x) == x < RESET_TRIES + 1

ResetLoopContinues(x) == x < RESET_TRIES

\* variant of CloseHandle: close leaves the handle in place
CloseHandle_Keep(h) == h

\* close: self.devh = None
CloseHandle(h) == "none"

\* close: if self.devh: releaseInterface (an error it raises is logged and
\* dropped), self.devh = None
CloseEffect ==
    IF devh # "none"
    THEN /\ iface' = "released"
         /\ devh' = CloseHandle(devh)
    ELSE UNCHANGED <<iface, devh>>

\* open, called for session kind s with retry configuration mt: _find_dev
\* finds nothing or dev.open() gives nothing (WeeWxIOError, no handle), or
\* the handle is stored and _reset begins
OpenCall(s, mt) ==
    /\ pc = "closed"
    /\ sess' = s
    /\ max_tries' = mt
    /\ BeginOp("open", <<0, 0>>)
    /\ iface' = "free"
    /\ nresets' = 0
    /\ rst' = "none"
    /\ nsleeps' = 0
    /\ \/ /\ pc' = "closed"
          /\ result' = Raised("WeeWxIOError")
          /\ UNCHANGED devh
       \/ /\ pc' = "op_reset"
          /\ result' = NoResult
          /\ devh' = "open"

\* WH23xxDriver.__init__: max_tries from the configuration, then
\* self._station.open()
DriverOpen == \E mt \in 1..MaxTries : OpenCall("driver", mt)

\* with WH23xxStation() as s: __enter__ calls open; there is no driver
ScopedOpen == OpenCall("scoped", 0)

\* _reset: self.devh.reset() succeeds (break) or raises usb.USBError
ResetCall ==
    /\ pc = "op_reset"
    /\ nresets' = nresets + 1
    /\ \/ rst' = "ok" /\ pc' = "op_claim"
       \/ rst' = "USBError" /\ pc' = "op_wait"
    /\ UNCHANGED <<op, req, max_tries, ntries, lastErr, tmp, record_size, wbuf,
                   result, ntries0, hardErrs, pkt1, nreads, rdpar, nwrites, wcnt,
                   collected, fresh, rxsum, sess, devh, iface, nsleeps, decVars>>

\* _reset: time.sleep(2) in the except clause, then the next x if any
ResetWait ==
    /\ pc = "op_wait"
    /\ nsleeps' = nsleeps + 1
    /\ pc' = IF ResetLoopContinues(nresets) THEN "op_reset" ELSE "op_claim"
    /\ UNCHANGED <<op, req, max_tries, ntries, lastErr, tmp, record_size, wbuf,
                   result, ntries0, hardErrs, pkt1, nreads, rdpar, nwrites, wcnt,
                   collected, fresh, rxsum, sess, devh, iface, nresets, rst,
                   decVars>>

\* open: claimInterface and setAltInterface; when either raises usb.USBError
\* open calls close and raises WeeWxIOError
ClaimInterface ==
    /\ pc = "op_claim"
    /\ \/ /\ pc' = "idle"
          /\ iface' = "claimed"
          /\ nresets' = 0
          /\ rst' = "none"
          /\ nsleeps' = 0
          /\ UNCHANGED <<devh, result>>
       \/ /\ pc' = "closed"
          /\ CloseEffect
          /\ result' = Raised("WeeWxIOError")
          /\ UNCHANGED <<nresets, rst, nsleeps>>
    /\ UNCHANGED <<op, req, max_tries, ntries, lastErr, tmp, record_size, wbuf,
                   ntries0, hardErrs, pkt1, nreads, rdpar, nwrites, wcnt, collected,
                   fresh, rxsum, sess, decVars>>

\* the caller is between two calls, nothing left to decode
AtRest == pc \in {"idle", "done", "decoded"} /\ ~DecodePending

\* closePort: self._station.close()
ClosePort ==
    /\ sess = "driver"
    /\ AtRest
    /\ pc' = "closed"
    /\ CloseEffect
    /\ UNCHANGED <<op, req, max_tries, ntries, lastErr, tmp, record_size, wbuf,
                   result, ntries0, hardErrs, pkt1, nreads, rdpar, nwrites, wcnt,
                   collected, fresh, rxsum, sess, nresets, rst, nsleeps, decVars>>

\* __exit__: the with block is left, by its end or by an exception
SessionExit ==
    /\ sess = "scoped"
    /\ AtRest
    /\ pc' = "closed"
    /\ CloseEffect
    /\ UNCHANGED <<op, req, max_tries, ntries, lastErr, tmp, record_size, wbuf,
                   result, ntries0, hardErrs, pkt1, nreads, rdpar, nwrites, wcnt,
                   collected, fresh, rxsum, sess, nresets, rst, nsleeps, decVars>>

(***************************************************************************)
(* The write-only operations: _time_sync, _clear_max_min, _clear_history.  *)
(***************************************************************************)
\* time.localtime(ts) as <<tm_year, tm_mon, tm_mday, tm_hour, tm_min, tm_sec>>
LocalTimes ==
    {<<2000, 1, 1, 0, 0, 0>>, <<2026, 11, 3, 8, 15, 57>>,
     <<2038, 1, 19, 3, 14, 7>>, <<2099, 12, 31, 23, 59, 59>>}

\* _time_sync: cmd, chksum = _calc_checksum(cmd), buf = [0x02, 0x09] + cmd +
\* [chksum]
TimeSyncFrame(t) ==
    LET cmd == <<TIME_SYNC, t[1] - 2000, t[2], t[3], t[4], t[5], t[6], 0>>
    IN  <<2, 9>> \o cmd \o <<calc_checksum(cmd)>>

ClearMaxMinFrame == <<2, 2, CLEAR_MAX_MIN_DAY, CLEAR_MAX_MIN_DAY>>

ClearHistoryFrame == <<2, 2, CLEAR_HISTORY, CLEAR_HISTORY>>

\* the frame operation o with argument r writes
WriteOnlyFrame(o, r) ==
    CASE o = "sync_time" -> TimeSyncFrame(r)
      [] o = "clear_max_min" -> ClearMaxMinFrame
      [] o = "clear_history" -> ClearHistoryFrame

\* variant of AwaitsReply: clear_history reads the station's answer
AwaitsReply_ClearHistory(o) == o = "clear_history"

\* _time_sync, _clear_max_min, _clear_history: nothing follows self._write
AwaitsReply(o) == FALSE

\* sync_time: self._time_sync(time.time())
SyncTimeCall == \E t \in LocalTimes : StartCall("sync_time", t, "wo_write")

ClearMaxMinCall == StartCall("clear_max_min", <<0, 0>>, "wo_write")

ClearHistoryCall == StartCall("clear_history", <<0, 0>>, "wo_write")

WriteOnlyWrite ==
    /\ pc = "wo_write"
    /\ wbuf' = WriteOnlyFrame(op, req)
    /\ nwrites' = Min(nwrites + 1, MaxTries + 1)
    /\ \/ \E cnt \in WriteCounts(WriteOnlyFrame(op, req)) :
             /\ wcnt' = cnt
             /\ IF ~WriteOk(cnt, WriteOnlyFrame(op, req))
                THEN BadWrite
                ELSE IF AwaitsReply(op)
                THEN /\ pc' = "ee_read"
                     /\ UNCHANGED <<ntries, lastErr, tmp, record_size, result,
                                    hardErrs, collected, rxsum>>
                ELSE Complete([kind |-> "None", val |-> <<>>], 0)
       \/ /\ wcnt' = -1
          /\ \E e \in USBErrors : RaiseUSBError(e)
    /\ UNCHANGED <<op, req, max_tries, ntries0, pkt1, nreads, rdpar, fresh,
                   sessVars, decVars>>

Next ==
    \/ DriverOpen
    \/ ScopedOpen
    \/ ResetCall
    \/ ResetWait
    \/ ClaimInterface
    \/ ClosePort
    \/ SessionExit
    \/ GetCurrentCall
    \/ StationGetCurrentCall
    \/ ReadEepromCall
    \/ GetStationInfoCall
    \/ SyncTimeCall
    \/ ClearMaxMinCall
    \/ ClearHistoryCall
    \/ ReadEepromWrite
    \/ ReadEepromRead
    \/ WriteOnlyWrite
    \/ DecodeCurrent
    \/ GetCurrentLoop
    \/ ReadRecordWrite
    \/ ReadRecordFirst
    \/ ReadRecordMore
    \/ RetryWait

Spec == Init /\ [][Next]_vars

\* the thread keeps running: a step that can be taken is taken
FairSpec == Spec /\ WF_vars(Next)

\* as FairSpec, and a station that is asked again and again for the rest of a
\* record sooner or later sends a packet that carries payload
DeliveringSpec ==
    /\ Spec
    /\ WF_vars(Next)
    /\ SF_vars(ReadRecordMore /\ (tmp' # tmp \/ pc' = "done"))

(***************************************************************************)
(* The legacy engine: WH2300Station.get_data_with_retry over get_data and  *)
(* _raw_read, on a station that has been opened. ntries is the loop        *)
(* variable, nwrites counts the controlMsg calls, nreads the interruptRead *)
(* calls, nsleeps the time.sleep calls, pkt1 is the last thing read.       *)
(***************************************************************************)
LegacyMaxTries == 3

\* <<addr, length>>: get_station_info asks for 0x23 bytes at address 0; the
\* default length is 32; nothing in the code excludes a length of 0
LegacyRequests == {<<0, 35>>, <<0, 32>>, <<0, 0>>}

\* what interruptRead(0x82, 64, timeout) may hand back
LegacyReplies == {Take(INFO_DATA, n) : n \in {0, 8, 31, 32, 35, 57}}

\* the variables the legacy engine leaves alone
legacyFixed ==
    <<op, req, max_tries, tmp, record_size, wbuf, ntries0, hardErrs, rdpar,
      collected, fresh, rxsum, sess, devh, iface, nresets, rst, raw, decoded,
      wcnt>>

LegacyInit ==
    /\ pc = "lg_loop"
    /\ op = "get_data_with_retry"
    /\ req \in LegacyRequests
    /\ max_tries \in 1..LegacyMaxTries
    /\ ntries = 0
    /\ lastErr = ""
    /\ tmp = <<>>
    /\ record_size = 0
    /\ wbuf = <<>>
    /\ result = NoResult
    /\ ntries0 = 0
    /\ hardErrs = 0
    /\ pkt1 = NoPacket
    /\ nreads = 0
    /\ rdpar = 0
    /\ nwrites = 0
    /\ wcnt = -1
    /\ collected = 0
    /\ fresh = <<>>
    /\ rxsum = -1
    /\ sess = "scoped"
    /\ devh = "open"
    /\ iface = "claimed"
    /\ nresets = 0
    /\ rst = "none"
    /\ nsleeps = 0
    /\ raw = <<>>
    /\ decoded = NoResult

\* except (usb.USBError, weewx.WeeWxIOError): both are subclasses of
\* IOError, so an IOError raised as such is not caught
LegacyCaught(k) == k \in {"USBError", "WeeWxIOError"}

\* an exception of class k with the text e leaves get_data inside the try
LegacyRaise(k, e) ==
    IF LegacyCaught(k)
    THEN /\ pc' = "lg_wait"
         /\ lastErr' = e
         /\ UNCHANGED result
    ELSE /\ pc' = "lg_done"
         /\ result' = Raised(k)
         /\ UNCHANGED lastErr

\* for ntries in range(0, self.max_tries): ... else: raise RetriesExceeded
LegacyLoop ==
    /\ pc = "lg_loop"
    /\ IF ntries < max_tries
       THEN pc' = "lg_ctrl" /\ UNCHANGED result
       ELSE pc' = "lg_done" /\ result' = Raised("RetriesExceeded")
    /\ UNCHANGED <<ntries, lastErr, pkt1, nreads, nwrites, nsleeps,
                   legacyFixed>>

\* _raw_read: result = self.devh.controlMsg(...), its value is not looked at
LegacyControlMsg ==
    /\ pc = "lg_ctrl"
    /\ nwrites' = nwrites + 1
    /\ \/ pc' = "lg_read" /\ UNCHANGED <<result, lastErr>>
       \/ \E e \in USBErrors : LegacyRaise("USBError", e)
    /\ UNCHANGED <<ntries, pkt1, nreads, nsleeps, legacyFixed>>

\* _raw_read: result = self.devh.interruptRead(0x82, 64, timeout); None or
\* fewer than size bytes raise IOError('raw_read failed'). get_data then
\* formats its log line with ord(c) for c in buf: buf is a list of integers,
\* so ord raises TypeError unless buf is empty
LegacyInterruptRead ==
    /\ pc = "lg_read"
    /\ nreads' = nreads + 1
    /\ \/ \E e \in USBErrors :
             LegacyRaise("USBError", e) /\ UNCHANGED pkt1
       \/ /\ pkt1' = NoPacket
          /\ LegacyRaise("IOError", "raw_read failed")
       \/ \E buf \in LegacyReplies :
             /\ pkt1' = buf
             /\ IF Len(buf) < req[2]
                THEN LegacyRaise("IOError", "raw_read failed")
                ELSE IF buf # <<>>
                THEN LegacyRaise("TypeError", "ord() expected string")
                ELSE /\ pc' = "lg_done"
                     /\ result' = [kind |-> "reply", val |-> buf]
                     /\ UNCHANGED lastErr
    /\ UNCHANGED <<ntries, nwrites, nsleeps, legacyFixed>>

\* loginf("Failed attempt ..."); time.sleep(self.retry_wait); next ntries
LegacyWait ==
    /\ pc = "lg_wait"
    /\ nsleeps' = nsleeps + 1
    /\ ntries' = ntries + 1
    /\ pc' = "lg_loop"
    /\ UNCHANGED <<lastErr, result, pkt1, nreads, nwrites, legacyFixed>>

LegacyNext ==
    \/ LegacyLoop
    \/ LegacyControlMsg
    \/ LegacyInterruptRead
    \/ LegacyWait

LegacySpec == LegacyInit /\ [][LegacyNext]_vars

(***************************************************************************)
(* Properties of the retry wrapper and of the two read operations.         *)
(***************************************************************************)
\* the operation has returned or raised; its caller may since have decoded
\* the reply or closed the station
CallOver == pc \in {"done", "decoded", "closed"}

\* an attempt of _get_current has been started and has not ended in a
\* caught USBError
AttemptOpen ==
    \/ pc \in {"rr_write", "rr_first", "rr_more"}
    \/ CallOver /\ result.kind # "RetriesExceeded"

\* the first packet of the attempt arrived and fails a header check
Malformed(buf) ==
    /\ buf # NoPacket
    /\ buf # <<>>
    /\ \/ buf[1] # REPLY_MARKER
       \/ Len(buf) >= 3 /\ buf[3] # READ_RECORD

C1_Counts ==
    op = "get_current" =>
        /\ hardErrs <= max_tries
        /\ ntries = hardErrs + (IF AttemptOpen THEN 1 ELSE 0)
        /\ result.kind = "RetriesExceeded" => hardErrs = max_tries

C1_Exhausted ==
    (op = "get_current" /\ pc = "gc_loop" /\ hardErrs = max_tries)
        => (pc' = "done" /\ result'.kind = "RetriesExceeded")

\* C1: in _get_current every USBError that is not transient consumes exactly
\* one attempt (ntries counts the non-transient errors caught, plus the
\* attempt in progress), the call never sees more than max_tries of them,
\* and once max_tries are consumed the next step raises RetriesExceeded.
C1_RetryBudget == []C1_Counts /\ [][C1_Exhausted]_vars

C1_Witness ==
    /\ op = "get_current"
    /\ result.kind = "RetriesExceeded"
    /\ max_tries > 1
    /\ hardErrs = max_tries

\* C2: once the except clause has handled a transient no-data USBError,
\* ntries equals its value before the attempt began; and RetriesExceeded is
\* never raised in a call that caught no other kind of USBError.
C2_TransientFree ==
    op = "get_current" =>
        /\ (pc = "gc_sleep" /\ lastErr \in NoDataErrors) => ntries = ntries0
        /\ result.kind = "RetriesExceeded" => hardErrs >= 1

C2_Witness ==
    /\ op = "get_current"
    /\ pc = "gc_sleep"
    /\ lastErr \in NoDataErrors
    /\ hardErrs = 0
    /\ nwrites > max_tries
    /\ ntries = 0

\* C3 (as claimed): every _get_current call that has started eventually
\* completes, by returning or by raising, whatever the transport does.
C3_Original == (op = "get_current" /\ pc = "gc_loop") ~> (pc = "done")

\* C4 (as claimed): a malformed first packet is raised to the caller of
\* _get_current only once max_tries attempts have been used.
C4_Original ==
    (op = "get_current" /\ pc = "done" /\ Malformed(pkt1)
        /\ result.kind = "WeeWxIOError") => ntries >= max_tries

\* C5: a reply returned by read-current has exactly the length declared in
\* byte 3 of the first packet, however many payload bytes were collected.
C5_DeclaredLength ==
    (op = "get_current" /\ result.kind = "reply") =>
        /\ Len(result.val) = pkt1[4]
        /\ collected >= Len(result.val)

C5_Witness ==
    /\ op = "get_current"
    /\ result.kind = "reply"
    /\ nreads >= 2
    /\ Len(result.val) = 4
    /\ collected > 4

\* C6 (as claimed): the reassembly loop of _read_record is left after a
\* bounded number of transport reads, whatever the continuation packets.
C6_Original == (pc = "rr_more") ~> (pc # "rr_more")

\* C7: when the first read after READ_RECORD delivers an empty packet the
\* call is over with the value None, no error, and that one read only.
C7_NoData ==
    (op = "get_current" /\ pkt1 = <<>>) =>
        /\ CallOver
        /\ result = [kind |-> "None", val |-> <<>>]
        /\ nreads = 1

C7_Witness ==
    /\ op = "get_current"
    /\ pkt1 = <<>>
    /\ result.kind = "None"
    /\ nreads = 1

\* C8: when byte 0 of the first packet is not 0x01, or byte 2 is not the
\* READ_RECORD echo, the call is over with an I/O error, no payload, and no
\* read beyond the first.
C8_BadHeader ==
    (op = "get_current" /\ Malformed(pkt1)) =>
        /\ CallOver
        /\ result = [kind |-> "WeeWxIOError", val |-> <<>>]
        /\ nreads = 1

C8_Witness ==
    /\ op = "get_current"
    /\ Len(pkt1) = MaxPktLen
    /\ pkt1[1] = REPLY_MARKER
    /\ pkt1[3] # READ_RECORD
    /\ pkt1[4] > 0
    /\ result.kind = "WeeWxIOError"

\* C9 (as claimed): a successful _read_eeprom has checked the declared size
\* against the request and returns exactly that many bytes.
C9_Original ==
    (op = "read_eeprom" /\ result.kind = "reply") =>
        /\ pkt1[4] = req[2]
        /\ Len(result.val) = pkt1[4]

\* C9 (amended): _read_eeprom succeeds exactly when the packet has its four
\* header bytes with marker 0x01 and the READ_EEPROM echo, whatever size it
\* declares; it then returns every byte after the header, checksum and
\* padding included; otherwise it raises an error and returns nothing.
C9_Amended ==
    (op = "read_eeprom" /\ pkt1 # NoPacket) =>
        /\ CallOver
        /\ nreads = 1
        /\ result.kind = "reply" <=>
               (Len(pkt1) >= 4 /\ pkt1[1] = 1 /\ pkt1[3] = 2)
        /\ result.kind = "reply" =>
               /\ Len(result.val) = Len(pkt1) - 4
               /\ \A i \in 1..Len(result.val) : result.val[i] = pkt1[i + 4]
        /\ result.kind # "reply" =>
               /\ result.kind \in {"WeeWxIOError", "IndexError"}
               /\ result.val = <<>>

C9_Witness ==
    /\ op = "read_eeprom"
    /\ result.kind = "reply"
    /\ pkt1[4] # req[2]
    /\ Len(result.val) > pkt1[4]

\* C10 (as claimed): get_station_info does not fail on a single failed
\* EEPROM read: the read has been tried again before the call gives up.
C10_Original ==
    (op = "get_station_info" /\ pc = "done" /\ nreads >= 1
        /\ result.kind \in {"WeeWxIOError", "USBError"})
        => nwrites > 1

(***************************************************************************)
(* Properties of the session: reset, claim, release.                       *)
(***************************************************************************)
\* C11 (as claimed): when _get_current raises RetriesExceeded the engine has
\* called the transport reset at least once since the station was opened,
\* hence since the failures of this call began.
C11_Original ==
    (op = "get_current" /\ result.kind = "RetriesExceeded") => nresets >= 1

C12_Loop ==
    /\ nresets <= RESET_TRIES
    /\ pc \in {"op_reset", "op_wait", "op_claim"} => iface = "free"
    /\ pc = "op_reset" =>
           (rst # "ok" /\ nresets < RESET_TRIES /\ nsleeps = nresets)
    /\ pc = "op_wait" => (rst = "USBError" /\ nsleeps = nresets - 1)
    /\ pc = "op_claim" =>
           \/ rst = "ok" /\ nsleeps = nresets - 1
           \/ rst = "USBError" /\ nresets = RESET_TRIES /\ nsleeps = nresets

C12_Steps ==
    /\ nresets' > nresets => (pc = "op_reset" /\ rst # "ok")
    /\ (nresets' > nresets /\ rst' = "USBError") => pc' = "op_wait"
    /\ (iface' = "claimed" /\ iface # "claimed") =>
           /\ pc = "op_claim"
           /\ rst = "ok" \/ nresets = RESET_TRIES

\* C12: on open the reset loop calls devh.reset() at most 5 times, never
\* again after a call that succeeded, sleeps once after every call that
\* failed, and the interface is claimed only when the loop is over.
C12_ResetLoop == []C12_Loop /\ [][C12_Steps]_vars

C12_Witness ==
    /\ pc = "op_claim"
    /\ rst = "USBError"
    /\ nresets = RESET_TRIES
    /\ nsleeps = RESET_TRIES

\* a scoped session that was opened has been left
ScopedSessionEnded ==
    /\ pc = "closed"
    /\ sess = "scoped"
    /\ op = "open" => result = NoResult

\* open got its handle and failed while claiming the interface
ClaimFailed ==
    /\ pc = "closed"
    /\ op = "open"
    /\ result.kind = "WeeWxIOError"
    /\ nresets >= 1

ReadOps == {"get_current", "station_get_current"}

WriteOnlyOps == {"sync_time", "clear_max_min", "clear_history"}

C14_Fresh ==
    op \in ReadOps =>
        /\ pc = "rr_first" => (tmp = <<>> /\ nreads = 0 /\ wbuf = ReadRecordFrame)
        /\ pc = "rr_more" => (tmp = fresh /\ nreads >= 1)
        /\ result.kind = "reply" => (result.val = fresh /\ nreads >= 1)

C14_Order ==
    op' \in ReadOps =>
        /\ (pc' = "rr_first" /\ pc # "rr_first") => pc = "rr_write"
        /\ (pc' = "rr_more" /\ pc # "rr_more") => pc = "rr_first"
        /\ (result'.kind = "reply" /\ result.kind # "reply") =>
               pc \in {"rr_first", "rr_more"}
        /\ (pc = "rr_first" /\ pc' # pc) => pc' \in {"rr_more", "done", "gc_sleep"}
        /\ (pc = "rr_more" /\ pc' # pc) => pc' \in {"done", "gc_sleep"}

\* C14: a read-current call writes the command, reads the first packet,
\* reads continuation packets, then returns or fails, in that order; and the
\* reply it returns is made of payload bytes of its own packets only, with
\* nothing collected by an earlier call or by a failed attempt before it.
C14_PerCall == []C14_Fresh /\ [][C14_Order]_vars

C14_Witness ==
    /\ op = "get_current"
    /\ result.kind = "reply"
    /\ nwrites >= 2
    /\ hardErrs >= 1
    /\ Len(result.val) = 4
    /\ nreads >= 2

\* the checksum rule: the last byte is the sum of the bytes after the
\* two-byte envelope, modulo 256
ChecksumEnds(f) ==
    /\ Len(f) >= 4
    /\ f[Len(f)] = SumSeq(SubSeq(f, 3, Len(f) - 1)) % 256

\* C16: every frame the engine writes (time-sync, read-eeprom, read-record,
\* clear-max-min, clear-history) ends with the low 8 bits of the sum of its
\* command and payload bytes, envelope excluded, and is built from the
\* arguments of the call that writes it.
C16_FrameChecksum ==
    wbuf # <<>> =>
        /\ ChecksumEnds(wbuf)
        /\ op = "sync_time" =>
               wbuf = <<2, 9, 1, req[1] - 2000, req[2], req[3], req[4], req[5],
                        req[6], 0, wbuf[11]>>
        /\ op \in {"read_eeprom", "get_station_info"} =>
               wbuf = <<2, 5, 2, req[1] % 256, req[1] \div 256, req[2], wbuf[7]>>
        /\ op \in ReadOps => wbuf = <<2, 2, 4, 4>>
        /\ op = "clear_max_min" => wbuf = <<2, 2, 9, 9>>
        /\ op = "clear_history" => wbuf = <<2, 2, 11, 11>>

C16_Witness ==
    /\ op = "sync_time"
    /\ wbuf # <<>>
    /\ SumSeq(SubSeq(wbuf, 3, 10)) > 255
    /\ pc = "done"

\* the received checksum byte is there and is not the checksum of the reply
ChecksumWrong ==
    /\ rxsum # -1
    /\ rxsum # (READ_RECORD + pkt1[4] + SumSeq(fresh)) % 256

\* C17: a read-current reply is returned whatever its checksum byte: the
\* result is the declared payload and no error, for a wrong checksum byte
\* as for a right one.
C17_ChecksumIgnored ==
    (op \in ReadOps /\ rxsum # -1) => result = [kind |-> "reply", val |-> fresh]

C17_Witness ==
    /\ op = "get_current"
    /\ ChecksumWrong
    /\ result.kind = "reply"
    /\ Len(result.val) = 4

\* C18: time_sync, clear_max_min and clear_history write their frame once
\* and read nothing: the call is over as soon as the write is.
C18_WriteOnly ==
    op \in WriteOnlyOps =>
        /\ nreads = 0
        /\ pkt1 = NoPacket
        /\ pc \in {"wo_write", "done", "closed"}
        /\ nwrites = (IF pc = "wo_write" THEN 0 ELSE 1)
        /\ pc # "wo_write" => wbuf = WriteOnlyFrame(op, req)

C18_Witness ==
    /\ op = "clear_history"
    /\ pc = "done"
    /\ result.kind = "None"
    /\ nwrites = 1
    /\ wbuf = <<2, 2, 11, 11>>

(***************************************************************************)
(* Properties of the decoder.                                              *)
(***************************************************************************)
\* the caller's decode step has raised
DecodeFails == pc = "done" /\ pc' = "decoded" /\ decoded'.kind \in Exceptions

C15_Step ==
    DecodeFails =>
        UNCHANGED <<op, req, max_tries, ntries, lastErr, tmp, record_size, wbuf,
                    result, ntries0, hardErrs, pkt1, nreads, rdpar, nwrites, wcnt,
                    collected, fresh, rxsum, sessVars>>

C15_Restart ==
    (pc = "decoded" /\ pc' = "gc_loop") =>
        /\ decoded' = NoResult
        /\ raw' = <<>>
        /\ ntries' = 0
        /\ UNCHANGED <<max_tries, sessVars>>

C15_Ready ==
    (sess = "driver" /\ pc = "decoded" /\ decoded.kind \in Exceptions) =>
        /\ devh = "open"
        /\ iface = "claimed"
        /\ ENABLED GetCurrentCall

\* C15: a decode_weather_data call that raises (unknown tag, truncated
\* field) changes nothing but the decoder's own outcome: handle, interface
\* and max_tries are as before, the driver can call read-current again, and
\* that call starts from the same state as after a decode that succeeded.
C15_DecodeIsolated == []C15_Ready /\ [][C15_Step /\ C15_Restart]_vars

C15_Witness ==
    /\ sess = "driver"
    /\ pc = "decoded"
    /\ decoded.kind = "WeeWxIOError"
    /\ Len(raw) = 4
    /\ raw[1] = 1
    /\ devh = "open"
    /\ max_tries = MaxTries

\* C19: for every entry of ITEM_MAPPING, the value decode_weather_data
\* gives for one item is None exactly when all bytes of its field are 0xff;
\* the light field 00 ff ff ff, which the workaround also turns into None,
\* is the one exception. The captured records decode accordingly.
C19_AbsentIffAllFF ==
    /\ (pc = "dec_done" /\ raw \in SingleItems) =>
           LET label == ITEM_MAPPING[raw[1]][1]
               allFF == \A k \in 2..Len(raw) : raw[k] = 255
               anomaly == raw = <<ITEM_LIGHT, 0, 255, 255, 255>>
           IN  /\ decoded.kind = "ok"
               /\ DOMAIN decoded.val = {label}
               /\ anomaly => decoded.val[label].value = NoValue
               /\ ~anomaly => (decoded.val[label].value = NoValue <=> allFF)
    /\ (pc = "dec_done" /\ raw \in CURRENT_DATA) =>
           /\ decoded.kind = "ok"
           /\ Cardinality(DOMAIN decoded.val) = 21
           /\ decoded.val["uv"].value = NoValue
           /\ decoded.val["uvi"].value = NoValue
           /\ decoded.val["light"].value = NoValue
           /\ decoded.val["in_humidity"].value = <<0, 50, 1>>
           /\ decoded.val["abs_baro"].value = <<0, 10224, 10>>

C19_Witness ==
    /\ pc = "dec_done"
    /\ raw = <<13, 255, 255, 255, 0>>
    /\ decoded.kind = "ok"
    /\ decoded.val["rain_event"].value = <<65535, 65280, 10>>

\* C20: when the stream holds, where a tag is expected, a byte whose base
\* identifier is not in ITEM_MAPPING, decode_weather_data raises
\* WeeWxIOError and its caller gets no mapping: neither the observations
\* decoded before the tag nor anything after it.
C20_UnknownTag ==
    (pc = "dec_done" /\ raw \in UnknownStreams) =>
        /\ decoded.kind = "WeeWxIOError"
        /\ DOMAIN decoded.val = {}

C20_Witness ==
    /\ pc = "dec_done"
    /\ raw = <<6, 50, 32, 7, 99>>
    /\ decoded.kind = "WeeWxIOError"

\* the width the table gives the first tag of raw
C21_Width == ITEM_MAPPING[ItemId(raw[1])][2]

\* C21: for a buffer holding one item with a known tag, decode_weather_data
\* raises the truncation error exactly when fewer bytes than the field's
\* width follow the tag, and then hands back no observation at all; a field
\* whose last byte is the last byte of the buffer is decoded, and when the
\* tag has no flag bits the decode succeeds with that one observation.
C21_Truncation ==
    (pc = "dec_done" /\ raw \in OneItemInputs) =>
        /\ (decoded.kind = "WeeWxIOError") <=> (Len(raw) - 1 < C21_Width)
        /\ (Len(raw) - 1 < C21_Width) => decoded.val = EmptyMap
        /\ (Len(raw) - 1 = C21_Width /\ raw[1] \in DOMAIN ITEM_MAPPING) =>
               /\ decoded.kind = "ok"
               /\ DOMAIN decoded.val = {ITEM_MAPPING[raw[1]][1]}
               /\ decoded.val[ITEM_MAPPING[raw[1]][1]].value =
                      LightWorkaround(raw[1],
                          decode_bytes(raw, 2, C21_Width,
                                       ITEM_MAPPING[raw[1]][3]))

\* rain_totals with three of its four bytes: the truncation error
C21_Witness ==
    /\ pc = "dec_done"
    /\ raw = <<20, 0, 0, 1>>
    /\ decoded.kind = "WeeWxIOError"

\* the bytes the first item of raw takes: tag, field, date, time
C22_Len ==
    1 + C21_Width + (IF HasDate(raw[1]) THEN 3 ELSE 0)
      + (IF HasTime(raw[1]) THEN 2 ELSE 0)

\* what is left of raw after its first item
C22_Rest == SubSeq(raw, C22_Len + 1, Len(raw))

\* the observation of the second item: in_humidity 50 without suffix, or
\* an absent uv dated 2025.01.02 03:04
C22_Second ==
    IF C22_Rest = <<6, 50>>
    THEN <<"in_humidity", [value |-> <<0, 50, 1>>, date |-> <<>>, time |-> <<>>]>>
    ELSE <<"uv", [value |-> NoValue, date |-> <<2025, 1, 2>>, time |-> <<3, 4>>]>>

\* C22: an item takes 1 + width + 3 (with a date) + 2 (with a time) bytes.
\* The date is read from the three bytes right after the value, the time
\* from the two bytes after the date, and the next tag is the byte after the
\* last suffix byte: a buffer of two items decodes to exactly the two
\* observations, the second one read from the bytes after the first item.
C22_Cursor ==
    (pc = "dec_done" /\ raw \in ItemStreams) =>
        LET item == ItemId(raw[1])
            label == ITEM_MAPPING[item][1]
            pd == 2 + C21_Width
            pt == IF HasDate(raw[1]) THEN pd + 3 ELSE pd
        IN  /\ C22_Rest \in ItemsAfter
            /\ decoded.kind = "ok"
            /\ DOMAIN decoded.val = {label, C22_Second[1]}
            /\ decoded.val[C22_Second[1]] = C22_Second[2]
            /\ label # C22_Second[1] =>
                   decoded.val[label] =
                       [value |-> LightWorkaround(item,
                                      decode_bytes(raw, 2, C21_Width,
                                                   ITEM_MAPPING[item][3])),
                        date |-> IF HasDate(raw[1])
                                 THEN <<2000 + raw[pd], raw[pd + 1], raw[pd + 2]>>
                                 ELSE <<>>,
                        time |-> IF HasTime(raw[1])
                                 THEN <<raw[pt], raw[pt + 1]>> ELSE <<>>]

\* in_temp with a date and a time, then in_humidity: both are decoded
C22_Witness ==
    /\ pc = "dec_done"
    /\ raw = <<193, 1, 1, 24, 11, 3, 23, 59, 6, 50>>
    /\ decoded.kind = "ok"
    /\ decoded.val["in_temp"].time = <<23, 59>>
    /\ decoded.val["in_humidity"].value = <<0, 50, 1>>

\* the tag of raw with bits 7 and 6 cleared, and its table entry
C23_Base == raw[1] % 64
C23_Entry == ITEM_MAPPING[C23_Base]

\* raw with the flag bits of its tag cleared and its suffix cut off
C23_BaseItem == <<C23_Base>> \o SubSeq(raw, 2, 1 + C23_Entry[2])

\* C23: an item whose tag has bit 7 and/or bit 6 set decodes under the name
\* of the tag with both bits cleared, to the value that the same field bytes
\* have under that plain tag; the observation has a date exactly when bit 7
\* is set and a time exactly when bit 6 is set.
C23_Flags ==
    (pc = "dec_done" /\ raw \in FlaggedItems) =>
        LET label == C23_Entry[1]
            plain == decode_weather_data(C23_BaseItem)
        IN  /\ decoded.kind = "ok"
            /\ DOMAIN decoded.val = {label}
            /\ plain.kind = "ok"
            /\ DOMAIN plain.val = {label}
            /\ decoded.val[label].value = plain.val[label].value
            /\ (decoded.val[label].date # <<>>) <=> (raw[1] \div 128 = 1)
            /\ (decoded.val[label].time # <<>>) <=> ((raw[1] % 128) \div 64 = 1)
            /\ plain.val[label].date = <<>> /\ plain.val[label].time = <<>>

\* out_temp 0x0213 with the time bit set: out_temp 13.1 with a time, no date
C23_Witness ==
    /\ pc = "dec_done"
    /\ raw = <<66, 2, 19, 23, 59>>
    /\ decoded.kind = "ok"
    /\ decoded.val["out_temp"] =
           [value |-> <<0, 131, 10>>, date |-> <<>>, time |-> <<23, 59>>]

\* the field of the one item in raw is the four bytes 00 ff ff ff
C24_Anomaly ==
    /\ raw \in WholeItems
    /\ C23_Entry[2] = 4
    /\ SubSeq(raw, 2, 5) = <<0, 255, 255, 255>>

\* C24: the light item (0x15) with the field 00 ff ff ff has an absent
\* value, with or without date and time suffix, and so has the light item of
\* the captured records; any other four-byte item with the field
\* 00 ff ff ff has the present value 0xffffff / 10.
C24_LightOnly ==
    /\ (pc = "dec_done" /\ C24_Anomaly) =>
           /\ decoded.kind = "ok"
           /\ (C23_Base = 21) => decoded.val["light"].value = NoValue
           /\ (C23_Base # 21) =>
                  decoded.val[C23_Entry[1]].value = <<255, 65535, 10>>
    /\ (pc = "dec_done" /\ raw \in CURRENT_DATA) =>
           /\ decoded.kind = "ok"
           /\ decoded.val["light"].value = NoValue
           /\ decoded.val["rain_totals"].value = <<0, 1221, 10>>

\* light 00 ff ff ff with a date and a time: absent, the suffixes kept
C24_Witness ==
    /\ pc = "dec_done"
    /\ raw = <<213, 0, 255, 255, 255, 24, 11, 3, 23, 59>>
    /\ decoded.kind = "ok"
    /\ decoded.val["light"] =
           [value |-> NoValue, date |-> <<2024, 11, 3>>, time |-> <<23, 59>>]

\* the divisor and the offset (in units of 1 / divisor) of a table function
C25_Den(func) ==
    CASE func = "same" -> 1 [] func = "milli" -> 1000 [] OTHER -> 10
C25_Off(func) == IF func = "temp" THEN 400 ELSE 0

\* C25: a present field of a plain item is the integer made of its bytes,
\* most significant byte first, under the function of the table: a
\* temperature is (x - 400) / 10, a tenth x / 10, uv x / 1000, the others
\* x (a four-byte x is held as its upper and lower 16 bits). The bytes
\* 02 02 13 give out_temp from 0x0213 = 531, 13.1 degrees.
C25_MSBFirst ==
    /\ (pc = "dec_done" /\ raw \in WholeItems /\ raw[1] < 64
            /\ \E j \in 2..Len(raw) : raw[j] # 255
            /\ ~C24_Anomaly) =>
           LET w == C23_Entry[2]
               func == C23_Entry[3]
               upper == IF w = 4 THEN raw[2] * 256 + raw[3] ELSE 0
               lower == IF w = 1 THEN raw[2]
                        ELSE raw[w] * 256 + raw[w + 1]
           IN  /\ decoded.kind = "ok"
               /\ decoded.val[C23_Entry[1]].value =
                      <<upper, lower - C25_Off(func), C25_Den(func)>>
    /\ (pc = "dec_done" /\ raw = <<2, 2, 19>>) =>
           decoded.val["out_temp"].value = <<0, 531 - 400, 10>>

\* the bytes 02 02 13: out_temp 13.1
C25_Witness ==
    /\ pc = "dec_done"
    /\ raw = <<2, 2, 19>>
    /\ decoded.kind = "ok"
    /\ decoded.val["out_temp"].value = <<0, 131, 10>>

\* the keys of a decoded history record
HistoryKeys ==
    {"wind_dir", "wind_speed", "gust_speed", "rain_total", "rain_overflow",
     "no_sensors", "humidity_in", "humidity_out", "temperature_in",
     "temperature_out", "pressure", "light", "uv"}

\* C26: decode_history_record returns an empty mapping, and raises nothing,
\* for every input whose length is not 18, the empty input included; an
\* input of 18 bytes gives the thirteen keys.
C26_WrongLength ==
    (pc = "hist_done") =>
        /\ decoded.kind = "ok"
        /\ (Len(raw) # 18) => DOMAIN decoded.val = {}
        /\ (Len(raw) = 18) => DOMAIN decoded.val = HistoryKeys

\* a record of 19 bytes has been decoded to the empty mapping
C26_Witness ==
    /\ pc = "hist_done"
    /\ Len(raw) = 19
    /\ decoded.kind = "ok"
    /\ DOMAIN decoded.val = {}

\* C27: the wind direction of a history record is (bit 0 of byte 0) * 256
\* + byte 1 and is absent exactly when that number is 0x1ff: byte 1 = 0xff
\* with the bit clear is the direction 255, and bytes 00 64 give 100.
C27_WindDir ==
    (pc = "hist_done" /\ Len(raw) = 18) =>
        LET x == (raw[1] % 2) * 256 + raw[2]
        IN  /\ (decoded.val.wind_dir = NoValue) <=> (x = 511)
            /\ (x # 511) => decoded.val.wind_dir = <<x, 1>>
            /\ (raw[1] % 2 = 0 /\ raw[2] = 255) =>
                   decoded.val.wind_dir = <<255, 1>>
            /\ (raw[1] = 0 /\ raw[2] = 100) =>
                   decoded.val.wind_dir = <<100, 1>>

\* byte 0 = 0xfe and byte 1 = 0xff: bit 0 is clear, the direction is 255
C27_Witness ==
    /\ pc = "hist_done"
    /\ Len(raw) = 18
    /\ raw[1] = 254
    /\ raw[2] = 255
    /\ decoded.val.wind_dir = <<255, 1>>

\* C28 as stated: the outside temperature of a history record comes from
\* the 12-bit number (high nibble of byte 9) * 256 + byte 10 and is absent
\* when that number is 0xfff; the inside temperature comes from (low nibble
\* of byte 9) * 256 + byte 8 in the same way.
C28_Original ==
    (pc = "hist_done" /\ Len(raw) = 18) =>
        LET out == (raw[10] \div 16) * 256 + raw[11]
            in == (raw[10] % 16) * 256 + raw[9]
        IN  /\ decoded.val.temperature_out =
                   IF out = 4095 THEN NoValue ELSE <<out - 400, 10>>
            /\ decoded.val.temperature_in =
                   IF in = 4095 THEN NoValue ELSE <<in - 400, 10>>

\* C29 as stated: pressure, light and uv of a history record are combined
\* most significant byte first: pressure = byte 11 * 256 + byte 12, light =
\* byte 13 * 65536 + byte 14 * 256 + byte 15, uv = byte 16 * 256 + byte 17.
C29_Original ==
    (pc = "hist_done" /\ Len(raw) = 18) =>
        LET pressure == raw[12] * 256 + raw[13]
            light == raw[14] * 65536 + raw[15] * 256 + raw[16]
            uv == raw[17] * 256 + raw[18]
        IN  /\ decoded.val.pressure =
                   IF pressure = 65535 THEN NoValue ELSE <<pressure, 10>>
            /\ decoded.val.light =
                   IF light = 16777215 THEN NoValue ELSE <<light, 10>>
            /\ decoded.val.uv =
                   IF uv = 65535 THEN NoValue ELSE <<uv, 1000>>

\* C30 as stated: the timezone byte 0xfe decodes to -2, and a timezone byte
\* with the high nibble 0xf decodes to its low nibble read as a four-bit
\* two's complement.
C30_Original ==
    (pc = "info_done" /\ raw[29] \div 16 = 15) =>
        LET n == raw[29] % 16
        IN  /\ decoded.kind = "ok"
            /\ decoded.val.timezone = (IF n >= 8 THEN n - 16 ELSE n)
            /\ (raw[29] = 254) => decoded.val.timezone = -2

\* the two history decoders agree on what d1 (revised) and d2 (legacy) hold:
\* the same keys, the same value under every key but uv, uv absent in both
\* or in neither, and a present uv the same number over 1000 and over 1
C31_Agree(d1, d2) ==
    /\ DOMAIN d1 = DOMAIN d2
    /\ \A k \in (DOMAIN d1) \ {"uv"} : d1[k] = d2[k]
    /\ "uv" \in DOMAIN d1 =>
           /\ (d1["uv"] = NoValue) <=> (d2["uv"] = NoValue)
           /\ (d1["uv"] # NoValue) =>
                  /\ d1["uv"][1] = d2["uv"][1]
                  /\ d1["uv"][2] = 1000 * d2["uv"][2]

\* C31: on every input decode_history_record and the legacy parse_raw give
\* the same keys and the same values, uv excepted: uv is absent in the one
\* exactly when it is absent in the other, and a present revised uv is the
\* legacy uv divided by 1000.
C31_SameAsLegacy ==
    /\ (pc = "hist_done") => C31_Agree(decoded.val, parse_raw(raw))
    /\ (pc = "legacy_done") =>
           C31_Agree(decode_history_record(raw), decoded.val)

\* the legacy decoder has given uv = 256 for bytes 16, 17 = 00 01
C31_Witness ==
    /\ pc = "legacy_done"
    /\ Len(raw) = 18
    /\ raw[17] = 0 /\ raw[18] = 1
    /\ decoded.val.uv = <<256, 1>>
    /\ decode_history_record(raw).uv = <<256, 1000>>

\* addresses at and around the byte boundaries of 0..0xffff, and the sizes
C32_Addresses == {0, 1, 255, 256, 511, 712, 1600, 4660, 65280, 65535}
C32_Sizes == 1..56

\* the frame of every sampled address and every size
C32_FrameLaw ==
    \A a \in C32_Addresses, sz \in C32_Sizes :
        LET f == ReadEepromFrame(a, sz)
        IN  /\ f = <<2, 5, READ_EEPROM, a % 256, a \div 256, sz,
                     (READ_EEPROM + (a % 256) + (a \div 256) + sz) % 256>>
            /\ f[4] + 256 * f[5] = a

\* C32: the frame read_eeprom writes is 02 05 READ_EEPROM, the low byte of
\* the address, its high byte, the size and the checksum, so that low +
\* 256 * high is the address; a call writes once, reads only after that
\* write, reads once, and a call that returns bytes has made exactly one
\* write and one read.
C32_LittleEndian ==
    /\ C32_FrameLaw
    /\ op \in {"read_eeprom", "get_station_info"} =>
           /\ nwrites <= 1
           /\ nreads <= 1
           /\ (nreads = 1) => (nwrites = 1)
           /\ (pc = "ee_read") =>
                  /\ nwrites = 1
                  /\ nreads = 0
                  /\ Len(wbuf) = 7
                  /\ wbuf[3] = READ_EEPROM
                  /\ wbuf[4] + 256 * wbuf[5] = req[1]
                  /\ wbuf[4] < 256
                  /\ wbuf[6] = req[2]
           /\ (result.kind \in {"reply", "info"}) =>
                  (nwrites = 1 /\ nreads = 1)

\* eight bytes read from address 0x02c8: the frame 02 05 02 c8 02 08 d4
C32_Witness ==
    /\ op = "read_eeprom"
    /\ req = <<712, 8>>
    /\ result.kind = "reply"
    /\ wbuf = <<2, 5, 2, 200, 2, 8, 212>>
    /\ nwrites = 1
    /\ nreads = 1

\* C33 as stated: get_data_with_retry makes at most max_tries attempts, and
\* every failed raw read, a reply shorter than the requested size included,
\* is retried: the call fails only with RetriesExceeded, after max_tries
\* failed attempts.
C33_Original ==
    /\ nwrites <= max_tries
    /\ (pc = "lg_done" /\ result.kind \notin {"reply", "TypeError"}) =>
           /\ result.kind = "RetriesExceeded"
           /\ ntries = max_tries

\* the bytes of raw after the field of its first item
C34_AfterValue == Len(raw) - 1 - C23_Entry[2]

\* C34: when the tag has the date bit set and fewer than three bytes follow
\* the value, or has the time bit set and fewer than two bytes follow the
\* value and the date, decode_weather_data ends with an error and hands
\* back no mapping, so no date or time is made from bytes that are not there.
C34_ShortSuffix ==
    (pc = "dec_done" /\ raw \in OneItemInputs /\ C34_AfterValue >= 0) =>
        LET date == raw[1] \div 128 = 1
            time == (raw[1] % 128) \div 64 = 1
            need == (IF date THEN 3 ELSE 0) + (IF time THEN 2 ELSE 0)
        IN  /\ (C34_AfterValue < need) =>
                   /\ decoded.kind = "IndexError"
                   /\ DOMAIN decoded.val = {}
            /\ (C34_AfterValue = need) => decoded.kind = "ok"

\* out_humidity with date and time bits, the date and one byte of the time
C34_Witness ==
    /\ pc = "dec_done"
    /\ raw = <<199, 1, 24, 11, 3, 23>>
    /\ decoded.kind = "IndexError"
    /\ DOMAIN decoded.val = {}

\* the last interruptWrite reported a count that is not the frame's length
C35_Short == wcnt # -1 /\ wcnt # Len(wbuf)

\* C35: when interruptWrite reports a count other than the length of the
\* frame, the operation ends with WeeWxIOError and issues no interruptRead
\* for that command: neither read_eeprom nor read-current (nor any other
\* operation) reads after a short write.
C35_NoReadAfterShortWrite ==
    C35_Short =>
        /\ CallOver
        /\ result.kind = "WeeWxIOError"
        /\ nreads = 0
        /\ pkt1 = NoPacket

\* the driver's read-current wrote three of the four bytes of its frame
C35_Witness ==
    /\ op = "get_current"
    /\ wbuf = <<2, 2, 4, 4>>
    /\ wcnt = 3
    /\ pc = "done"
    /\ result.kind = "WeeWxIOError"
    /\ nreads = 0

=============================================================================
